---- MODULE Spec2Model ----
(***************************************************************************)
(* Student Application Testing System (src/main.py).                       *)
(*                                                                         *)
(* The service keeps three module-level collections: the dict students,   *)
(* the dict tests and the list test_results.  Every request handler runs  *)
(* to completion on the store, so each handler is one action.  The        *)
(* variable last holds the last request and the response it produced.     *)
(*                                                                         *)
(* A Python dict keeps its keys in insertion order, so a dict is modelled *)
(* as the sequence of its values in insertion order, keyed by the field   *)
(* id of each value.                                                       *)
(***************************************************************************)
EXTENDS Integers, Sequences, FiniteSets, TLC

VARIABLES students, tests, test_results, last

vars == <<students, tests, test_results, last>>

store == <<students, tests, test_results>>

\* Longest test_results list explored under Spec.
MaxResults == 2

\* Longest test_results list explored under SpecStats.
MaxScored == 3

----------------------------------------------------------------------------
(* Request payloads explored. *)

StudentIds == {1, 2}

TestIds == {1, 2}

StudentNames == {"Ann Lee", "A"}

StudentEmails == {"a@x.com"}

TakenInputs == {<<>>, <<2>>}

TestNames == {"Quiz", "Q"}

MaxScores == {10}

Scores == {10, 15}

----------------------------------------------------------------------------
(* Python dict operations on the ordered representation. *)

Keys(d) == {d[i].id : i \in 1..Len(d)}

Contains(d, k) == \E i \in 1..Len(d) : d[i].id = k

Lookup(d, k) == d[CHOOSE i \in 1..Len(d) : d[i].id = k]

SetItem(d, v) ==
    IF Contains(d, v.id)
    THEN [i \in 1..Len(d) |-> IF d[i].id = v.id THEN v ELSE d[i]]
    ELSE Append(d, v)

DelItem(d, k) == SelectSeq(d, LAMBDA v : v.id # k)

----------------------------------------------------------------------------
(* The pydantic models and their field constraints. *)

Student(id, name, email, tests_taken) ==
    [id |-> id, name |-> name, email |-> email, tests_taken |-> tests_taken]

Test(id, name, max_score) ==
    [id |-> id, name |-> name, max_score |-> max_score]

TestResult(student_id, test_id, score) ==
    [student_id |-> student_id, test_id |-> test_id, score |-> score]

ResponseMessage(message) == [message |-> message]

ValidStudent(student) == Len(student.name) >= 2 /\ Len(student.name) <= 50

ValidTest(test) == Len(test.name) >= 2 /\ Len(test.name) <= 100

StudentBodies ==
    {Student(id, name, email, taken) :
        id \in StudentIds, name \in StudentNames,
        email \in StudentEmails, taken \in TakenInputs}

TestBodies ==
    {Test(id, name, max_score) :
        id \in TestIds, name \in TestNames, max_score \in MaxScores}

ResultBodies ==
    {TestResult(student_id, test_id, score) :
        student_id \in StudentIds, test_id \in TestIds, score \in Scores}

(* Request payloads explored under SpecStats: one student, two tests with
   different maximum scores, and the scores of the aggregate endpoints. *)

StatsStudentIds == {1}

StatsStudentBodies == {Student(1, "Ann Lee", "a@x.com", <<>>)}

StatsTestBodies == {Test(1, "Quiz", 15), Test(2, "Exam", 20)}

StatsResultBodies ==
    {TestResult(1, 1, score) : score \in {5, 10, 15, 20}} \cup {TestResult(1, 2, 20)}

----------------------------------------------------------------------------
(* Responses. *)

Ok(body) == [status |-> 200, body |-> body]

HTTPException(status_code, detail) ==
    [status |-> status_code, body |-> [detail |-> detail]]

\* A request body that fails a Field constraint never reaches the handler.
Unprocessable == [status |-> 422, body |-> [detail |-> "validation error"]]

Reply(op, arg, response) ==
    [op |-> op, arg |-> arg, status |-> response.status, body |-> response.body]

StudentIdExists == HTTPException(400, "Student ID already exists")

\* Variant: an unknown student is reported as a bad request.
StudentNotFound_BadRequest == HTTPException(400, "Student not found")

StudentNotFound == HTTPException(404, "Student not found")

TestIdExists == HTTPException(400, "Test ID already exists")

TestNotFound == HTTPException(404, "Test not found")

ScoreExceeds == HTTPException(400, "Score exceeds maximum possible score")

NoResults == HTTPException(404, "No results found for this test")

----------------------------------------------------------------------------
Init ==
    /\ students = <<>>
    /\ tests = <<>>
    /\ test_results = <<>>
    /\ last = Reply("start", <<>>, Ok(<<>>))

\* Variant: the handler stores the student without looking for its id.
create_student_Overwrite(student) ==
    IF ~ValidStudent(student)
    THEN /\ last' = Reply("create_student", student, Unprocessable)
         /\ UNCHANGED store
    ELSE /\ students' = SetItem(students, student)
         /\ last' = Reply("create_student", student, Ok(student))
         /\ UNCHANGED <<tests, test_results>>

(* POST /students/ *)
create_student(student) ==
    IF ~ValidStudent(student)
    THEN /\ last' = Reply("create_student", student, Unprocessable)
         /\ UNCHANGED store
    ELSE IF Contains(students, student.id)
    THEN /\ last' = Reply("create_student", student, StudentIdExists)
         /\ UNCHANGED store
    ELSE /\ students' = SetItem(students, student)
         /\ last' = Reply("create_student", student, Ok(student))
         /\ UNCHANGED <<tests, test_results>>

(* GET /students/{student_id} *)
GetStudent(d, student_id) ==
    IF ~Contains(d, student_id)
    THEN StudentNotFound
    ELSE Ok(Lookup(d, student_id))

get_student(student_id) ==
    /\ last' = Reply("get_student", student_id, GetStudent(students, student_id))
    /\ UNCHANGED store

(* GET /students/ *)
\* list(students.values()): the values in insertion order.
GetAllStudents(d) == Ok(d)

get_all_students ==
    /\ last' = Reply("get_all_students", <<>>, GetAllStudents(students))
    /\ UNCHANGED store

\* Variant: deleting a student also drops the results that reference it.
delete_student_Cascade(student_id) ==
    IF ~Contains(students, student_id)
    THEN /\ last' = Reply("delete_student", student_id, StudentNotFound)
         /\ UNCHANGED store
    ELSE /\ students' = DelItem(students, student_id)
         /\ test_results' =
                SelectSeq(test_results, LAMBDA result : result.student_id # student_id)
         /\ last' = Reply("delete_student", student_id,
                          Ok(ResponseMessage("Student deleted successfully")))
         /\ UNCHANGED tests

(* DELETE /students/{student_id} *)
delete_student(student_id) ==
    IF ~Contains(students, student_id)
    THEN /\ last' = Reply("delete_student", student_id, StudentNotFound)
         /\ UNCHANGED store
    ELSE /\ students' = DelItem(students, student_id)
         /\ last' = Reply("delete_student", student_id,
                          Ok(ResponseMessage("Student deleted successfully")))
         /\ UNCHANGED <<tests, test_results>>

(* POST /tests/ *)
create_test(test) ==
    IF ~ValidTest(test)
    THEN /\ last' = Reply("create_test", test, Unprocessable)
         /\ UNCHANGED store
    ELSE IF Contains(tests, test.id)
    THEN /\ last' = Reply("create_test", test, TestIdExists)
         /\ UNCHANGED store
    ELSE /\ tests' = SetItem(tests, test)
         /\ last' = Reply("create_test", test, Ok(test))
         /\ UNCHANGED <<students, test_results>>

(* GET /tests/{test_id} *)
GetTest(d, test_id) ==
    IF ~Contains(d, test_id)
    THEN TestNotFound
    ELSE Ok(Lookup(d, test_id))

get_test(test_id) ==
    /\ last' = Reply("get_test", test_id, GetTest(tests, test_id))
    /\ UNCHANGED store

(* GET /tests/ *)
get_all_tests ==
    /\ last' = Reply("get_all_tests", <<>>, Ok(tests))
    /\ UNCHANGED store

\* Variant: the test is looked up before the student.
SubmitCheck_TestFirst(result) ==
    IF ~Contains(tests, result.test_id) THEN TestNotFound
    ELSE IF ~Contains(students, result.student_id) THEN StudentNotFound
    ELSE IF result.score > Lookup(tests, result.test_id).max_score THEN ScoreExceeds
    ELSE Ok(result)

\* Variant: the score is not compared with the test's maximum.
SubmitCheck_NoScoreCheck(result) ==
    IF ~Contains(students, result.student_id) THEN StudentNotFound
    ELSE IF ~Contains(tests, result.test_id) THEN TestNotFound
    ELSE Ok(result)

(* POST /results/ : the three checks, in the order the handler makes them. *)
SubmitCheck(result) ==
    IF ~Contains(students, result.student_id) THEN StudentNotFound
    ELSE IF ~Contains(tests, result.test_id) THEN TestNotFound
    ELSE IF result.score > Lookup(tests, result.test_id).max_score THEN ScoreExceeds
    ELSE Ok(result)

\* Variant: a test already in tests_taken is not appended again.
TakeTest_Once(d, student_id, test_id) ==
    [i \in 1..Len(d) |->
        IF d[i].id = student_id
           /\ \A j \in 1..Len(d[i].tests_taken) : d[i].tests_taken[j] # test_id
        THEN [d[i] EXCEPT !.tests_taken = Append(@, test_id)]
        ELSE d[i]]

\* students[student_id].tests_taken.append(test_id)
TakeTest(d, student_id, test_id) ==
    [i \in 1..Len(d) |->
        IF d[i].id = student_id
        THEN [d[i] EXCEPT !.tests_taken = Append(@, test_id)]
        ELSE d[i]]

\* Variant: the result is appended before the checks are made.
submit_test_result_AppendFirst(result) ==
    LET response == SubmitCheck(result) IN
    IF response.status # 200
    THEN /\ test_results' = Append(test_results, result)
         /\ last' = Reply("submit_test_result", result, response)
         /\ UNCHANGED <<students, tests>>
    ELSE /\ test_results' = Append(test_results, result)
         /\ students' = TakeTest(students, result.student_id, result.test_id)
         /\ last' = Reply("submit_test_result", result, response)
         /\ UNCHANGED tests

submit_test_result(result) ==
    LET response == SubmitCheck(result) IN
    IF response.status # 200
    THEN /\ last' = Reply("submit_test_result", result, response)
         /\ UNCHANGED store
    ELSE /\ test_results' = Append(test_results, result)
         /\ students' = TakeTest(students, result.student_id, result.test_id)
         /\ last' = Reply("submit_test_result", result, response)
         /\ UNCHANGED tests

\* Variant: the filter compares the wrong field.
StudentResults_ByTestId(student_id) ==
    SelectSeq(test_results, LAMBDA result : result.test_id = student_id)

(* GET /results/student/{student_id} *)
StudentResults(student_id) ==
    SelectSeq(test_results, LAMBDA result : result.student_id = student_id)

get_student_results(student_id) ==
    /\ last' = Reply("get_student_results", student_id,
                     IF ~Contains(students, student_id)
                     THEN StudentNotFound
                     ELSE Ok(StudentResults(student_id)))
    /\ UNCHANGED store

(* GET /results/test/{test_id} *)
TestResults(test_id) ==
    SelectSeq(test_results, LAMBDA result : result.test_id = test_id)

get_test_results(test_id) ==
    /\ last' = Reply("get_test_results", test_id,
                     IF ~Contains(tests, test_id)
                     THEN TestNotFound
                     ELSE Ok(TestResults(test_id)))
    /\ UNCHANGED store

(* [result.score for result in test_results if result.test_id == test_id] *)
RECURSIVE ScoresOf(_, _)
ScoresOf(results, test_id) ==
    IF results = <<>> THEN <<>>
    ELSE IF Head(results).test_id = test_id
    THEN <<Head(results).score>> \o ScoresOf(Tail(results), test_id)
    ELSE ScoresOf(Tail(results), test_id)

TestScores(test_id) == ScoresOf(test_results, test_id)

RECURSIVE Sum(_)
Sum(xs) == IF xs = <<>> THEN 0 ELSE Head(xs) + Sum(Tail(xs))

Abs(x) == IF x < 0 THEN 0 - x ELSE x

RECURSIVE Gcd(_, _)
Gcd(a, b) == IF b = 0 THEN a ELSE Gcd(b, a % b)

\* Variant: integer division of the sum by the count.
Mean_Floor(xs) == [num |-> Sum(xs) \div Len(xs), den |-> 1]

\* statistics.mean: the exact quotient sum / count, here a fraction in lowest
\* terms with a positive denominator.
Mean(xs) ==
    LET total == Sum(xs)
        n == Len(xs)
        g == Gcd(Abs(total), n)
    IN  [num |-> total \div g, den |-> n \div g]

\* max(): the first largest element of a left-to-right scan.
RECURSIVE MaxFrom(_, _)
MaxFrom(best, xs) ==
    IF xs = <<>> THEN best
    ELSE MaxFrom(IF Head(xs) > best THEN Head(xs) ELSE best, Tail(xs))

Max(xs) == MaxFrom(Head(xs), Tail(xs))

\* min(): the first smallest element of a left-to-right scan.
RECURSIVE MinFrom(_, _)
MinFrom(best, xs) ==
    IF xs = <<>> THEN best
    ELSE MinFrom(IF Head(xs) < best THEN Head(xs) ELSE best, Tail(xs))

Min(xs) == MinFrom(Head(xs), Tail(xs))

(* GET /results/test/{test_id}/o'rtacha *)
get_test_average(test_id) ==
    /\ last' = Reply("get_test_average", test_id,
                     IF ~Contains(tests, test_id) THEN TestNotFound
                     ELSE IF TestScores(test_id) = <<>> THEN NoResults
                     ELSE Ok(Mean(TestScores(test_id))))
    /\ UNCHANGED store

(* GET /results/test/{test_id}/eng_yuqori *)
get_test_highest(test_id) ==
    /\ last' = Reply("get_test_highest", test_id,
                     IF ~Contains(tests, test_id) THEN TestNotFound
                     ELSE IF TestScores(test_id) = <<>> THEN NoResults
                     ELSE Ok(Max(TestScores(test_id))))
    /\ UNCHANGED store

(* GET /results/test/{test_id}/eng_pasti *)
get_test_lowest(test_id) ==
    /\ last' = Reply("get_test_lowest", test_id,
                     IF ~Contains(tests, test_id) THEN TestNotFound
                     ELSE IF TestScores(test_id) = <<>> THEN NoResults
                     ELSE Ok(Min(TestScores(test_id))))
    /\ UNCHANGED store

----------------------------------------------------------------------------
(* The requests of one exploration: the payloads it draws from, and the
   longest test_results list it lets a submission extend. *)
Requests(student_bodies, student_ids, test_bodies, test_ids, result_bodies, cap) ==
    \/ \E student \in student_bodies : create_student(student)
    \/ \E student_id \in student_ids : get_student(student_id)
    \/ get_all_students
    \/ \E student_id \in student_ids : delete_student(student_id)
    \/ \E test \in test_bodies : create_test(test)
    \/ \E test_id \in test_ids : get_test(test_id)
    \/ get_all_tests
    \/ \E result \in result_bodies :
          Len(test_results) < cap /\ submit_test_result(result)
    \/ \E student_id \in student_ids : get_student_results(student_id)
    \/ \E test_id \in test_ids : get_test_results(test_id)
    \/ \E test_id \in test_ids : get_test_average(test_id)
    \/ \E test_id \in test_ids : get_test_highest(test_id)
    \/ \E test_id \in test_ids : get_test_lowest(test_id)

Next ==
    Requests(StudentBodies, StudentIds, TestBodies, TestIds, ResultBodies, MaxResults)

Spec == Init /\ [][Next]_vars

NextStats ==
    Requests(StatsStudentBodies, StatsStudentIds, StatsTestBodies, TestIds,
             StatsResultBodies, MaxScored)

SpecStats == Init /\ [][NextStats]_vars
----------------------------------------------------------------------------
(* Properties.  The store before a request is read from the unprimed
   variables and the request and its response from last'. *)

\* The positions of the results that reference a student, or a test.
ByStudent(results, student_id) ==
    {i \in 1..Len(results) : results[i].student_id = student_id}

ByTest(results, test_id) ==
    {i \in 1..Len(results) : results[i].test_id = test_id}

\* The j-th smallest position of a set of positions.
Nth(positions, j) ==
    CHOOSE i \in positions : Cardinality({k \in positions : k <= i}) = j

\* body is the subsequence of results at the given positions.
IsSubsequenceAt(body, results, positions) ==
    /\ Len(body) = Cardinality(positions)
    /\ \A j \in 1..Len(body) : body[j] = results[Nth(positions, j)]

RECURSIVE ScoreSumAt(_, _)
ScoreSumAt(results, positions) ==
    IF positions = {} THEN 0
    ELSE LET i == CHOOSE k \in positions : TRUE
         IN  results[i].score + ScoreSumAt(results, positions \ {i})

Rejected(response, status_code, detail) ==
    /\ response.status = status_code
    /\ response.body = [detail |-> detail]

\* C1: a submit_test_result whose student is unknown, whose test is unknown or
\* whose score is greater than the test's max_score fails, and students, tests
\* and test_results are the same before and after the call.
C1_RejectedSubmitNoSideEffect ==
    [][ last'.op = "submit_test_result" =>
        LET result == last'.arg IN
        (\/ result.student_id \notin Keys(students)
         \/ result.test_id \notin Keys(tests)
         \/ result.score > Lookup(tests, result.test_id).max_score)
        => /\ last'.status # 200
           /\ students' = students
           /\ tests' = tests
           /\ test_results' = test_results ]_vars

\* A submission rejected for its score, made on a store that already holds a
\* result and the student's back-reference to it.
C1_Witness ==
    /\ last.op = "submit_test_result"
    /\ last.status = 400
    /\ Len(test_results) = 1
    /\ \E i \in 1..Len(students) :
          students[i].id = last.arg.student_id /\ students[i].tests_taken # <<>>

\* C2: submit_test_result reports the first failing check only: an unknown
\* student whatever the test and the score, else an unknown test whatever the
\* score, else a score greater than max_score; otherwise it succeeds.
C2_SubmitCheckOrder ==
    [][ last'.op = "submit_test_result" =>
        LET result == last'.arg IN
        IF result.student_id \notin Keys(students)
        THEN Rejected(last', 404, "Student not found")
        ELSE IF result.test_id \notin Keys(tests)
        THEN Rejected(last', 404, "Test not found")
        ELSE IF result.score > Lookup(tests, result.test_id).max_score
        THEN Rejected(last', 400, "Score exceeds maximum possible score")
        ELSE last'.status = 200 ]_vars

\* A submission that names an unknown student and an unknown test, while
\* another test exists whose max_score the score exceeds: only the student
\* is reported.
C2_Witness ==
    /\ last.op = "submit_test_result"
    /\ Rejected(last, 404, "Student not found")
    /\ last.arg.student_id \notin Keys(students)
    /\ last.arg.test_id \notin Keys(tests)
    /\ \E i \in 1..Len(tests) : last.arg.score > tests[i].max_score

\* C3: a submit_test_result whose student and test exist and whose score is at
\* most max_score succeeds, appends the result to test_results and its test_id
\* to the student's tests_taken, and changes nothing else, also when the pair
\* (student, test) already has a result.
C3_SubmitAppends ==
    [][ last'.op = "submit_test_result" =>
        LET result == last'.arg IN
        (/\ result.student_id \in Keys(students)
         /\ result.test_id \in Keys(tests)
         /\ result.score <= Lookup(tests, result.test_id).max_score)
        => /\ last'.status = 200
           /\ last'.body = result
           /\ test_results' = Append(test_results, result)
           /\ tests' = tests
           /\ Len(students') = Len(students)
           /\ \A i \in 1..Len(students) :
                 IF students[i].id = result.student_id
                 THEN /\ students'[i].tests_taken =
                            Append(students[i].tests_taken, result.test_id)
                      /\ students'[i].id = students[i].id
                      /\ students'[i].name = students[i].name
                      /\ students'[i].email = students[i].email
                 ELSE students'[i] = students[i] ]_vars

\* A second successful submission for the same (student, test) pair, with
\* another student in the store.
C3_Witness ==
    /\ last.op = "submit_test_result"
    /\ last.status = 200
    /\ Len(test_results) = 2
    /\ test_results[1].student_id = test_results[2].student_id
    /\ test_results[1].test_id = test_results[2].test_id
    /\ Len(students) = 2

\* C4: create_student (create_test) with an id that is already a key fails with
\* the duplicate-identifier error and leaves the store, the stored record
\* included, unchanged; with an unused id it succeeds and a following get for
\* that id returns the record as supplied.
C4_CreateDuplicateOrStore ==
    [][ /\ (last'.op = "create_student" /\ last'.status # 422) =>
           LET student == last'.arg IN
           IF student.id \in Keys(students)
           THEN /\ Rejected(last', 400, "Student ID already exists")
                /\ students' = students
                /\ tests' = tests
                /\ test_results' = test_results
           ELSE /\ last'.status = 200
                /\ GetStudent(students', student.id) = Ok(student)
        /\ (last'.op = "create_test" /\ last'.status # 422) =>
           LET test == last'.arg IN
           IF test.id \in Keys(tests)
           THEN /\ Rejected(last', 400, "Test ID already exists")
                /\ students' = students
                /\ tests' = tests
                /\ test_results' = test_results
           ELSE /\ last'.status = 200
                /\ GetTest(tests', test.id) = Ok(test) ]_vars

\* A create_student refused for its id, whose body differs from the record
\* stored under that id.
C4_Witness ==
    /\ last.op = "create_student"
    /\ last.status = 400
    /\ last.arg.id \in Keys(students)
    /\ Lookup(students, last.arg.id) # last.arg

\* C5: delete_student of an unknown id fails with NotFound and changes
\* nothing; of a known id it removes that student only, so that get_student
\* then fails and get_all_students does not list it, and leaves test_results,
\* tests and the other students unchanged.
C5_DeleteStudentFrame ==
    [][ last'.op = "delete_student" =>
        LET student_id == last'.arg IN
        IF student_id \notin Keys(students)
        THEN /\ Rejected(last', 404, "Student not found")
             /\ students' = students
             /\ tests' = tests
             /\ test_results' = test_results
        ELSE /\ last'.status = 200
             /\ Keys(students') = Keys(students) \ {student_id}
             /\ \A k \in Keys(students') :
                   Lookup(students', k) = Lookup(students, k)
             /\ GetStudent(students', student_id) = StudentNotFound
             /\ \A i \in 1..Len(GetAllStudents(students').body) :
                   GetAllStudents(students').body[i].id # student_id
             /\ tests' = tests
             /\ test_results' = test_results ]_vars

\* A student deleted while a result references it and another student stays.
C5_Witness ==
    /\ last.op = "delete_student"
    /\ last.status = 200
    /\ ByStudent(test_results, last.arg) # {}
    /\ Len(students) = 1

\* C6: get_test_average, get_test_highest and get_test_lowest fail with
\* NotFound for an unknown test, with NoResults for a test without results,
\* and otherwise return the sum of the test's scores divided by their count,
\* their maximum and their minimum, results of deleted students included;
\* for the scores 5, 10 and 15 they return 10, 15 and 5.
C6_Aggregates ==
    last.op \in {"get_test_average", "get_test_highest", "get_test_lowest"} =>
    LET test_id == last.arg
        positions == ByTest(test_results, test_id)
        scores == {test_results[i].score : i \in positions}
    IN  IF test_id \notin Keys(tests)
        THEN Rejected(last, 404, "Test not found")
        ELSE IF positions = {}
        THEN Rejected(last, 404, "No results found for this test")
        ELSE /\ last.status = 200
             /\ last.op = "get_test_average" =>
                   /\ last.body.den > 0
                   /\ last.body.num * Cardinality(positions) =
                         last.body.den * ScoreSumAt(test_results, positions)
             /\ last.op = "get_test_highest" =>
                   /\ last.body \in scores
                   /\ \A x \in scores : x <= last.body
             /\ last.op = "get_test_lowest" =>
                   /\ last.body \in scores
                   /\ \A x \in scores : x >= last.body
             /\ (Cardinality(positions) = 3 /\ scores = {5, 10, 15}) =>
                   /\ last.op = "get_test_average" =>
                         last.body = [num |-> 10, den |-> 1]
                   /\ last.op = "get_test_highest" => last.body = 15
                   /\ last.op = "get_test_lowest" => last.body = 5

\* The average of the scores 5, 10 and 15 of a test, asked for after the
\* student who took it was deleted.
C6_Witness ==
    /\ last.op = "get_test_average"
    /\ last.status = 200
    /\ last.body = [num |-> 10, den |-> 1]
    /\ Cardinality(ByTest(test_results, last.arg)) = 3
    /\ {test_results[i].score : i \in 1..Len(test_results)} = {5, 10, 15}
    /\ students = <<>>

\* C7: get_student_results (get_test_results) fails with NotFound when the id
\* is not a key of students (tests), whatever test_results holds; otherwise it
\* returns the results with that student_id (test_id) in insertion order,
\* those submitted before the student was deleted and created again included.
C7_ResultsFiltered ==
    /\ last.op = "get_student_results" =>
          IF last.arg \notin Keys(students)
          THEN Rejected(last, 404, "Student not found")
          ELSE /\ last.status = 200
               /\ IsSubsequenceAt(last.body, test_results,
                                  ByStudent(test_results, last.arg))
    /\ last.op = "get_test_results" =>
          IF last.arg \notin Keys(tests)
          THEN Rejected(last, 404, "Test not found")
          ELSE /\ last.status = 200
               /\ IsSubsequenceAt(last.body, test_results,
                                  ByTest(test_results, last.arg))

\* The results of a student who was deleted and created again: the student's
\* tests_taken is empty while a result submitted before the deletion is
\* returned, picked out of the two results in the store.
C7_Witness ==
    /\ last.op = "get_student_results"
    /\ last.status = 200
    /\ Len(last.body) = 1
    /\ Len(test_results) = 2
    /\ Lookup(students, last.arg).tests_taken = <<>>

\* The causes of the three kinds of error.
IsDuplicate ==
    \/ last.op = "create_student" /\ last.status \notin {200, 422}
    \/ last.op = "create_test" /\ last.status \notin {200, 422}

IsNotFound ==
    \/ /\ last.op \in {"get_student", "delete_student", "get_student_results"}
       /\ last.status # 200
    \/ /\ last.op \in {"get_test", "get_test_results", "get_test_average",
                       "get_test_highest", "get_test_lowest"}
       /\ last.arg \notin Keys(tests)
    \/ /\ last.op = "submit_test_result"
       /\ \/ last.arg.student_id \notin Keys(students)
          \/ last.arg.test_id \notin Keys(tests)

IsScoreExceeded ==
    /\ last.op = "submit_test_result"
    /\ last.status # 200
    /\ ~IsNotFound

\* C8, as claimed: a reused identifier yields a conflict-class error, an
\* unknown student or test a missing-resource-class error and a score greater
\* than max_score a bad-request-class error, so that the three kinds have
\* three different classes.
C8_ThreeErrorClasses ==
    /\ IsDuplicate => last.status = 409
    /\ IsNotFound => last.status = 404
    /\ IsScoreExceeded => last.status = 400

\* C8, amended: a reused identifier yields a bad-request-class error (400), an
\* unknown student or test a missing-resource-class error (404) and a score
\* greater than max_score a bad-request-class error (400); not-found differs
\* in class from the other two, which differ from each other by their detail
\* message only.
C8_ErrorClasses ==
    /\ IsDuplicate =>
          /\ last.status = 400
          /\ last.body.detail \in {"Student ID already exists", "Test ID already exists"}
    /\ IsNotFound =>
          /\ last.status = 404
          /\ last.body.detail \in {"Student not found", "Test not found"}
    /\ IsScoreExceeded =>
          /\ last.status = 400
          /\ last.body.detail = "Score exceeds maximum possible score"

\* A create_test refused for its id, with the status of a bad request.
C8_Witness ==
    /\ last.op = "create_test"
    /\ last.status = 400
    /\ last.arg.id \in Keys(tests)

\* C9: every result in test_results references a test in tests and has a
\* score of at most that test's max_score, and no step removes or changes a
\* test once created.
C9_ScoreWithinMax ==
    /\ [](\A i \in 1..Len(test_results) :
             /\ test_results[i].test_id \in Keys(tests)
             /\ test_results[i].score <=
                   Lookup(tests, test_results[i].test_id).max_score)
    /\ [][\A k \in Keys(tests) :
             k \in Keys(tests') /\ Lookup(tests', k) = Lookup(tests, k)]_vars

\* Two results in the store, one with the score equal to max_score, both of a
\* student since deleted.
C9_Witness ==
    /\ Len(test_results) = 2
    /\ \E i \in 1..2 :
          test_results[i].score = Lookup(tests, test_results[i].test_id).max_score
    /\ students = <<>>

\* C10: for every student in students, tests_taken is the sequence of the
\* test_id values of the results in test_results with that student's id, in
\* insertion order.
C10_TakenMatchesResults ==
    \A i \in 1..Len(students) :
        LET positions == ByStudent(test_results, students[i].id) IN
        /\ Len(students[i].tests_taken) = Cardinality(positions)
        /\ \A j \in 1..Len(students[i].tests_taken) :
              students[i].tests_taken[j] = test_results[Nth(positions, j)].test_id
====
